---- MODULE Spec2Model ----
(***************************************************************************)
(* Model of src/src/services/api.ts: the MongoDBAPI client.                *)
(*                                                                         *)
(* State: the browser's localStorage entry 'authToken', the instance's     *)
(* baseURL and the calls of the api that are in progress.  A call goes     *)
(* through the suspension points of its async method: the synchronous part *)
(* up to `await fetch`, the continuation that runs when fetch settles, the *)
(* continuation that runs when the response body has been read and, for a  *)
(* method routed through request(), the method's own continuation of       *)
(* `await this.request(...)`, which runs in a later job than the one that  *)
(* settles request().                                                      *)
(*                                                                         *)
(* Strings that the code concatenates are sequences of pieces; the query   *)
(* string of getJobs is a sequence of single characters, serialised the    *)
(* way URLSearchParams.toString() does.                                    *)
(***************************************************************************)
EXTENDS Integers, Sequences, FiniteSets, TLC

VARIABLES storage, calls, baseURL

vars == <<storage, calls, baseURL>>

(***************************************************************************)
(* Bounds of the model.                                                    *)
(***************************************************************************)
\* calls that may overlap in SpecConc
MaxCalls == 2

\* tokens a server may return
Tokens == {"t1", "t2"}

\* job and user ids
Ids == {"j1"}

(***************************************************************************)
(* JavaScript values.                                                      *)
(***************************************************************************)
\* null, as returned by localStorage.getItem for a missing key
Null == "#null"

\* undefined, as read from a missing property
Undefined == "#undefined"

\* String(v), as applied by template literals and by localStorage.setItem
Str(v) == IF v = Null THEN "null" ELSE IF v = Undefined THEN "undefined" ELSE v

\* ToBoolean(v) for a string, null or undefined
Truthy(v) == v \notin {Null, Undefined, ""}

\* obj.f for a decoded JSON object
Get(obj, f) == IF f \in DOMAIN obj THEN obj[f] ELSE Undefined

\* values a promise resolves with
UndefinedVal == [kind |-> "undefined"]
NullVal == [kind |-> "null"]
JsonVal(obj) == [kind |-> "json", obj |-> obj]

(***************************************************************************)
(* localStorage.                                                           *)
(***************************************************************************)
getItemStale(store) == Null

getItem(store) == store

setItem(v) == Str(v)

removeItemKeep(store) == store

removeItem(store) == Null

(***************************************************************************)
(* The instance.                                                           *)
(***************************************************************************)
\* import.meta.env.VITE_API_BASE_URL || ''
API_BASE(env) == IF Truthy(env) THEN env ELSE ""

\* this.baseURL = baseURL || API_BASE
constructor(arg, env) == IF Truthy(arg) THEN arg ELSE API_BASE(env)

\* values of VITE_API_BASE_URL at build time: unset or set
Envs == {Undefined, "http://h.example/api"}

\* arguments of new MongoDBAPI(...): none, empty, a custom base
BaseArgs == {Undefined, "", "http://c.example"}

(***************************************************************************)
(* Request bodies.                                                         *)
(***************************************************************************)
NoBody == [kind |-> "none"]

\* JSON.stringify(obj) as the text of obj
JSONstringify(obj) == [kind |-> "json", obj |-> obj]

\* new FormData() with one appended part
FormData(field, file) == [kind |-> "form", field |-> field, file |-> file]

(***************************************************************************)
(* URLSearchParams: application/x-www-form-urlencoded serialisation.       *)
(***************************************************************************)
Chars_status == <<"s", "t", "a", "t", "u", "s">>
Chars_category == <<"c", "a", "t", "e", "g", "o", "r", "y">>
Chars_priority == <<"p", "r", "i", "o", "r", "i", "t", "y">>
Chars_search == <<"s", "e", "a", "r", "c", "h">>

\* the characters the serialiser leaves as they are
Unreserved ==
  {"a", "b", "c", "d", "e", "f", "g", "h", "i", "j", "k", "l", "m", "n", "o",
   "p", "q", "r", "s", "t", "u", "v", "w", "x", "y", "z",
   "A", "B", "C", "D", "E", "F", "G", "H", "I", "J", "K", "L", "M", "N", "O",
   "P", "Q", "R", "S", "T", "U", "V", "W", "X", "Y", "Z",
   "0", "1", "2", "3", "4", "5", "6", "7", "8", "9", "*", "-", ".", "_"}

\* the byte of every other printable ASCII character (the backquote, which a
\* string of this module cannot hold, left out), in upper-case hex
PercentCode ==
  ("!" :> <<"2", "1">>) @@ ("\"" :> <<"2", "2">>) @@ ("#" :> <<"2", "3">>)
  @@ ("$" :> <<"2", "4">>) @@ ("%" :> <<"2", "5">>) @@ ("&" :> <<"2", "6">>)
  @@ ("'" :> <<"2", "7">>) @@ ("(" :> <<"2", "8">>) @@ (")" :> <<"2", "9">>)
  @@ ("+" :> <<"2", "B">>) @@ ("," :> <<"2", "C">>) @@ ("/" :> <<"2", "F">>)
  @@ (":" :> <<"3", "A">>) @@ (";" :> <<"3", "B">>) @@ ("<" :> <<"3", "C">>)
  @@ ("=" :> <<"3", "D">>) @@ (">" :> <<"3", "E">>) @@ ("?" :> <<"3", "F">>)
  @@ ("@" :> <<"4", "0">>) @@ ("[" :> <<"5", "B">>) @@ ("\\" :> <<"5", "C">>)
  @@ ("]" :> <<"5", "D">>) @@ ("^" :> <<"5", "E">>)
  @@ ("{" :> <<"7", "B">>) @@ ("|" :> <<"7", "C">>) @@ ("}" :> <<"7", "D">>)
  @@ ("~" :> <<"7", "E">>)

urlencodeCharRaw(c) == <<c>>

\* one character of a name or value (a printable ASCII character): kept
\* when unreserved, '+' for a space, otherwise its byte as %XX
urlencodeChar(c) ==
  CASE c \in Unreserved -> <<c>>
    [] c = " " -> <<"+">>
    [] c \in DOMAIN PercentCode -> <<"%">> \o PercentCode[c]

RECURSIVE urlencode(_)
urlencode(s) == IF s = <<>> THEN <<>> ELSE urlencodeChar(Head(s)) \o urlencode(Tail(s))

\* params.append(name, value) on the list of pairs
paramsAppend(params, name, value) == Append(params, <<name, value>>)

RECURSIVE paramsToString(_)
paramsToString(params) ==
  IF params = <<>> THEN <<>>
  ELSE urlencode(params[1][1]) \o <<"=">> \o urlencode(params[1][2])
       \o (IF Len(params) > 1 THEN <<"&">> \o paramsToString(Tail(params)) ELSE <<>>)

(***************************************************************************)
(* fetch(url, init): the request put on the wire.  A missing init.method   *)
(* is GET and a missing init.body is no body.                              *)
(***************************************************************************)
fetch(url, init) ==
  [verb |-> IF "method" \in DOMAIN init THEN init.method ELSE "GET",
   url |-> url,
   headers |-> init.headers,
   body |-> IF "body" \in DOMAIN init THEN init.body ELSE NoBody]

NoOptions == [x \in {} |-> x]

\* options.headers of a RequestInit (none of the callers passes any)
OptionHeaders(options) ==
  IF "headers" \in DOMAIN options THEN options.headers ELSE NoOptions

(***************************************************************************)
(* request(endpoint, options): the synchronous part, up to `await fetch`.  *)
(***************************************************************************)
request(endpoint, options, store) ==
  LET token == getItem(store)
      defaultHeaders ==
        IF Truthy(token)
        THEN ("Content-Type" :> <<"application/json">>)
             @@ ("Accept" :> <<"application/json">>)
             @@ ("Authorization" :> <<"Bearer ", token>>)
        ELSE ("Content-Type" :> <<"application/json">>)
             @@ ("Accept" :> <<"application/json">>)
  IN fetch(<<baseURL>> \o endpoint,
           ("headers" :> (OptionHeaders(options) @@ defaultHeaders)) @@ options)

(***************************************************************************)
(* getJobs: the endpoint built from the filters.  A filter is used when    *)
(* its value is truthy: present and not the empty string.                  *)
(***************************************************************************)
FilterGiven(filters, k) == k \in DOMAIN filters /\ filters[k] # <<>>

getJobsParams(filters) ==
  LET p0 == <<>>
      p1 == IF FilterGiven(filters, "status")
            THEN paramsAppend(p0, Chars_status, filters["status"]) ELSE p0
      p2 == IF FilterGiven(filters, "category")
            THEN paramsAppend(p1, Chars_category, filters["category"]) ELSE p1
      p3 == IF FilterGiven(filters, "priority")
            THEN paramsAppend(p2, Chars_priority, filters["priority"]) ELSE p2
      p4 == IF FilterGiven(filters, "search")
            THEN paramsAppend(p3, Chars_search, filters["search"]) ELSE p3
  IN p4

getJobsEndpoint(filters) ==
  LET params == getJobsParams(filters)
  IN IF paramsToString(params) # <<>>
     THEN <<"/jobs?">> \o paramsToString(params)
     ELSE <<"/jobs">>

(***************************************************************************)
(* The synchronous part of each method that sends a request: the fetch it  *)
(* issues, given its arguments and the storage at the call.                *)
(***************************************************************************)
login(a, store) ==
  request(<<"/users/login">>,
          [method |-> "POST",
           body |-> JSONstringify([email |-> a.email, password |-> a.password])],
          store)

getCurrentUser(a, store) == request(<<"/users/me">>, NoOptions, store)

registerUser(a, store) ==
  request(<<"/users/register">>,
          [method |-> "POST", body |-> JSONstringify(a.userData)], store)

getJobs(a, store) == request(getJobsEndpoint(a.filters), NoOptions, store)

getJob(a, store) == request(<<"/jobs/", a.id>>, NoOptions, store)

createJob(a, store) ==
  request(<<"/jobs">>, [method |-> "POST", body |-> JSONstringify(a.jobData)], store)

updateJob(a, store) ==
  request(<<"/jobs/", a.id>>,
          [method |-> "PUT", body |-> JSONstringify(a.jobData)], store)

deleteJob(a, store) == request(<<"/jobs/", a.id>>, [method |-> "DELETE"], store)

claimJobGet(a, store) == request(<<"/jobs/", a.id, "/claim">>, NoOptions, store)

claimJob(a, store) == request(<<"/jobs/", a.id, "/claim">>, [method |-> "POST"], store)

updateJobStatus(a, store) ==
  request(<<"/jobs/", a.id, "/status">>,
          [method |-> "POST", body |-> JSONstringify([status |-> a.status])], store)

submitPDF(a, store) ==
  fetch(<<baseURL, "/jobs/", a.id, "/submit">>,
        [method |-> "POST",
         headers |-> ("Authorization" :> <<"Bearer ", Str(getItem(store))>>),
         body |-> FormData("submission", a.file)])

downloadPDF(a, store) ==
  fetch(<<baseURL, "/jobs/", a.id, "/download">>,
        [method |-> "GET",
         headers |-> ("Authorization" :> <<"Bearer ", Str(getItem(store))>>)])

getUsers(a, store) == request(<<"/users">>, NoOptions, store)

createUser(a, store) ==
  request(<<"/users/register">>,
          [method |-> "POST", body |-> JSONstringify(a.userData)], store)

updateUser(a, store) ==
  request(<<"/users/", a.id>>,
          [method |-> "PUT", body |-> JSONstringify(a.userData)], store)

deleteUser(a, store) == request(<<"/users/", a.id>>, [method |-> "DELETE"], store)

\* the methods routed through request()
RequestMethods ==
  {"login", "getCurrentUser", "registerUser", "getJobs", "getJob", "createJob",
   "updateJob", "deleteJob", "claimJob", "updateJobStatus", "getUsers",
   "createUser", "updateUser", "deleteUser"}

\* the methods that call fetch themselves
RawMethods == {"submitPDF", "downloadPDF"}

FetchMethods == RequestMethods \cup RawMethods

\* the fetch a method issues before its first suspension
SyncPart(m, a, store) ==
  CASE m = "login" -> login(a, store)
    [] m = "getCurrentUser" -> getCurrentUser(a, store)
    [] m = "registerUser" -> registerUser(a, store)
    [] m = "getJobs" -> getJobs(a, store)
    [] m = "getJob" -> getJob(a, store)
    [] m = "createJob" -> createJob(a, store)
    [] m = "updateJob" -> updateJob(a, store)
    [] m = "deleteJob" -> deleteJob(a, store)
    [] m = "claimJob" -> claimJob(a, store)
    [] m = "updateJobStatus" -> updateJobStatus(a, store)
    [] m = "submitPDF" -> submitPDF(a, store)
    [] m = "downloadPDF" -> downloadPDF(a, store)
    [] m = "getUsers" -> getUsers(a, store)
    [] m = "createUser" -> createUser(a, store)
    [] m = "updateUser" -> updateUser(a, store)
    [] m = "deleteUser" -> deleteUser(a, store)

(***************************************************************************)
(* Arguments of the calls.                                                 *)
(***************************************************************************)
NoArgs == [x \in {} |-> x]

UserData == [name |-> "n1", email |-> "e1", password |-> "p1"]

JobData == [title |-> "job", fee |-> "10"]

FilterKeys == {"status", "category", "priority", "search"}

\* values of a filter: empty, plain, and two with characters the serialiser
\* escapes
FilterValues == {<<>>, <<"a", "l", "l">>, <<"a", " ", "&", "=">>, <<"C", "#", "/", "~">>}

\* a filters object: each key missing or holding a value
Filters == UNION {[K -> FilterValues] : K \in SUBSET FilterKeys}

ArgsOf(m) ==
  CASE m = "login" -> {[email |-> "e1", password |-> "p1"]}
    [] m \in {"registerUser", "createUser"} -> {[userData |-> UserData]}
    [] m \in {"getCurrentUser", "getUsers", "logout"} -> {NoArgs}
    [] m = "getJobs" -> {[filters |-> f] : f \in Filters}
    [] m \in {"getJob", "deleteJob", "claimJob", "downloadPDF", "deleteUser"} ->
         {[id |-> i] : i \in Ids}
    [] m = "createJob" -> {[jobData |-> JobData]}
    [] m = "updateJob" -> {[id |-> i, jobData |-> JobData] : i \in Ids}
    [] m = "updateJobStatus" -> {[id |-> i, status |-> st] : i \in Ids, st \in {"claimed"}}
    [] m = "submitPDF" -> {[id |-> i, file |-> "f.pdf"] : i \in Ids}
    [] m = "updateUser" -> {[id |-> i, userData |-> UserData] : i \in Ids}

(***************************************************************************)
(* What the server answers: a response with a status class and a body, or  *)
(* no response at all (fetch rejects).                                     *)
(***************************************************************************)
NetworkError == [kind |-> "neterr"]

\* a body that is not valid JSON, with its text
TextBody(text) == [json |-> FALSE, text |-> text]

Texts == {"", "not json"}

JsonBody(obj) == [json |-> TRUE, obj |-> obj]

Response(ok, body) == [kind |-> "http", ok |-> ok, body |-> body]

UserObj(t) ==
  [id |-> "u1", name |-> "n1", email |-> "e1", role |-> "member", token |-> t]

\* decoded JSON objects a body may hold
Objects ==
  {UserObj(t) : t \in Tokens}
  \cup {[id |-> "u1", name |-> "n1", email |-> "e1", role |-> "admin"],
        [message |-> "boom"], [message |-> ""], [code |-> "E42"]}

Bodies == {TextBody(t) : t \in Texts} \cup {JsonBody(o) : o \in Objects}

Responses == {NetworkError} \cup {Response(ok, b) : ok \in BOOLEAN, b \in Bodies}

\* the answers used where calls overlap
ConcResponses ==
  {Response(TRUE, JsonBody(UserObj("t2"))),
   Response(FALSE, JsonBody([message |-> "boom"]))}

(***************************************************************************)
(* Outcomes of a promise.                                                  *)
(***************************************************************************)
Pending == [st |-> "pending"]

Resolved(v) == [st |-> "resolved", val |-> v]

Rejected(msg) == [st |-> "rejected", err |-> msg]

\* message of the TypeError fetch rejects with
FetchFailedMessage == "Failed to fetch"

\* message of the SyntaxError response.json() rejects with, as V8 words it
SyntaxErrorMessage(text) ==
  CASE text = "" -> "Unexpected end of JSON input"
    [] text = "not json" -> "Unexpected token 'o', \"not json\" is not valid JSON"

(***************************************************************************)
(* The non-success branch of request() and submitPDF.                      *)
(***************************************************************************)
errorPayloadNoCatch(resp) ==
  IF resp.body.json THEN resp.body.obj ELSE NoArgs

\* await response.json().catch(() => ({ message: 'Unknown error' }))
errorPayload(resp) ==
  IF resp.body.json THEN resp.body.obj ELSE [message |-> "Unknown error"]

errorMessageNoFallback(error) == Str(Get(error, "message"))

\* error.message || 'API request failed'
errorMessage(error) ==
  IF Truthy(Get(error, "message")) THEN Get(error, "message") ELSE "API request failed"

\* request() and submitPDF once the body of the response has been read
settleBody(resp) ==
  IF ~resp.ok THEN Rejected(errorMessage(errorPayload(resp)))
  ELSE IF resp.body.json THEN Resolved(JsonVal(resp.body.obj))
  ELSE Rejected(SyntaxErrorMessage(resp.body.text))

(***************************************************************************)
(* The rest of each method, run once request() has settled with `req`.     *)
(***************************************************************************)
storesTokenAlsoCreateUser(m, req) ==
  m \in {"login", "registerUser", "createUser"} /\ req.st = "resolved"

\* the method writes the token of the response
storesToken(m, req) == m \in {"login", "registerUser"} /\ req.st = "resolved"

tokenToStoreStale(response, store) == store

\* localStorage.setItem('authToken', response.token)
tokenToStore(response, store) == setItem(Get(response, "token"))

userOfWhole(response) == response

\* { id: response.id, name: response.name, email: response.email, role: response.role }
userOf(response) ==
  [id |-> Get(response, "id"), name |-> Get(response, "name"),
   email |-> Get(response, "email"), role |-> Get(response, "role")]

\* what the method's promise settles with
methodOutcome(m, req) ==
  CASE m \in {"login", "registerUser"} ->
         IF req.st = "resolved" THEN Resolved(JsonVal(userOf(req.val.obj))) ELSE req
    [] m = "getCurrentUser" ->
         IF req.st = "rejected" THEN Resolved(NullVal) ELSE req
    [] m \in {"deleteJob", "claimJob", "updateJobStatus", "deleteUser"} ->
         IF req.st = "resolved" THEN Resolved(UndefinedVal) ELSE req
    [] OTHER -> req

\* the storage after the method's continuation
storageAfter(m, req, store) ==
  IF storesToken(m, req) THEN tokenToStore(req.val.obj, store) ELSE store

(***************************************************************************)
(* Calls.  pc is the suspension point the call is at:                      *)
(*   idle      no call in this slot                                        *)
(*   fetching  suspended at `await fetch(...)`                             *)
(*   reading   suspended on the body: response.json() or response.blob()   *)
(*   returning request() has settled with `req`; the method is still       *)
(*             suspended at `await this.request(...)`                      *)
(*   done      the method's promise has settled with `out`                 *)
(* sent lists the fetches issued, tokenAtCall records the storage at the   *)
(* call, req is the outcome of request() and saved the file name handed    *)
(* to the browser by downloadPDF.                                          *)
(***************************************************************************)
NoResponse == [kind |-> "none"]

Idle ==
  [method |-> "none", args |-> NoArgs, pc |-> "idle", tokenAtCall |-> Null,
   sent |-> <<>>, resp |-> NoResponse, req |-> Pending, out |-> Pending,
   saved |-> <<>>]

downloadErrorMessage == "Failed to download PDF"

\* a.download = `submission-${id}.pdf`
downloadName(id) == <<"submission-", id, ".pdf">>

\* method m, which sends a request, is called with some arguments: it runs
\* up to `await fetch`
Invoke(s, m) ==
  /\ calls[s].pc = "idle"
  /\ m \in FetchMethods
  /\ \E a \in ArgsOf(m) :
       calls' = [calls EXCEPT ![s] =
         [Idle EXCEPT !.method = m, !.args = a, !.pc = "fetching",
                      !.tokenAtCall = storage,
                      !.sent = <<SyncPart(m, a, storage)>>]]
  /\ UNCHANGED <<storage, baseURL>>

\* logout() is called: it has no suspension point
logout(s) ==
  /\ calls[s].pc = "idle"
  /\ storage' = removeItem(storage)
  /\ UNCHANGED baseURL
  /\ calls' = [calls EXCEPT ![s] =
       [Idle EXCEPT !.method = "logout", !.pc = "done", !.tokenAtCall = storage,
                    !.out = Resolved(UndefinedVal)]]

\* fetch settles with r and the call runs on to its next suspension point
FetchSettled(s, r) ==
  LET c == calls[s]
      m == c.method
  IN /\ c.pc = "fetching"
     /\ UNCHANGED <<storage, baseURL>>
     /\ IF r.kind = "neterr"
        THEN IF m \in RequestMethods
             THEN calls' = [calls EXCEPT ![s] =
                    [c EXCEPT !.pc = "returning", !.resp = r,
                              !.req = Rejected(FetchFailedMessage)]]
             ELSE calls' = [calls EXCEPT ![s] =
                    [c EXCEPT !.pc = "done", !.resp = r,
                              !.out = Rejected(FetchFailedMessage)]]
        ELSE IF m = "downloadPDF" /\ ~r.ok
        THEN calls' = [calls EXCEPT ![s] =
               [c EXCEPT !.pc = "done", !.resp = r,
                         !.out = Rejected(downloadErrorMessage)]]
        ELSE calls' = [calls EXCEPT ![s] = [c EXCEPT !.pc = "reading", !.resp = r]]

\* the body has been read: request() settles, submitPDF and downloadPDF run
\* to their end
BodyRead(s) ==
  LET c == calls[s]
      m == c.method
  IN /\ c.pc = "reading"
     /\ UNCHANGED <<storage, baseURL>>
     /\ IF m \in RequestMethods
        THEN calls' = [calls EXCEPT ![s] =
               [c EXCEPT !.pc = "returning", !.req = settleBody(c.resp)]]
        ELSE IF m = "submitPDF"
        THEN calls' = [calls EXCEPT ![s] =
               [c EXCEPT !.pc = "done", !.out = settleBody(c.resp)]]
        ELSE calls' = [calls EXCEPT ![s] =
               [c EXCEPT !.pc = "done", !.out = Resolved(UndefinedVal),
                         !.saved = downloadName(c.args.id)]]

\* the method's continuation of `await this.request(...)` runs to its end
MethodContinues(s) ==
  LET c == calls[s]
  IN /\ c.pc = "returning"
     /\ calls' = [calls EXCEPT ![s] =
          [c EXCEPT !.pc = "done", !.out = methodOutcome(c.method, c.req)]]
     /\ storage' = storageAfter(c.method, c.req, storage)
     /\ UNCHANGED baseURL

\* the caller has taken the outcome; the slot is free for the next call
Return(s) ==
  /\ calls[s].pc = "done"
  /\ calls' = [calls EXCEPT ![s] = Idle]
  /\ UNCHANGED <<storage, baseURL>>

(***************************************************************************)
(* Spec: one call at a time, every method, every answer.                   *)
(***************************************************************************)
SeqSlots == {1}

Init ==
  /\ storage \in {Null} \cup Tokens
  /\ baseURL \in {constructor(arg, env) : arg \in BaseArgs, env \in Envs}
  /\ calls = [s \in SeqSlots |-> Idle]

Next ==
  \/ \E s \in SeqSlots : \E m \in FetchMethods : Invoke(s, m)
  \/ \E s \in SeqSlots : logout(s)
  \/ \E s \in SeqSlots : \E r \in Responses : FetchSettled(s, r)
  \/ \E s \in SeqSlots : BodyRead(s)
  \/ \E s \in SeqSlots : MethodContinues(s)
  \/ \E s \in SeqSlots : Return(s)

Spec == Init /\ [][Next]_vars

(***************************************************************************)
(* SpecConc: the exported instance `api` of a build without                *)
(* VITE_API_BASE_URL, with up to MaxCalls overlapping                      *)
(* calls of login, registerUser, logout, a method routed through request() *)
(* and the two methods that call fetch themselves.                         *)
(***************************************************************************)
ConcMethods == {"login", "registerUser", "getJob", "submitPDF", "downloadPDF"}

ConcSlots == 1..MaxCalls

InitConc ==
  /\ storage \in {Null} \cup Tokens
  /\ baseURL = constructor(Undefined, Undefined)
  /\ calls = [s \in ConcSlots |-> Idle]

NextConc ==
  \/ \E s \in ConcSlots : \E m \in ConcMethods : Invoke(s, m)
  \/ \E s \in ConcSlots : logout(s)
  \/ \E s \in ConcSlots : \E r \in ConcResponses : FetchSettled(s, r)
  \/ \E s \in ConcSlots : BodyRead(s)
  \/ \E s \in ConcSlots : MethodContinues(s)
  \/ \E s \in ConcSlots : Return(s)

SpecConc == InitConc /\ [][NextConc]_vars

(***************************************************************************)
(* Helpers of the properties.                                              *)
(***************************************************************************)
Slots == DOMAIN calls

HasAuth(req) == "Authorization" \in DOMAIN req.headers

Bearer(t) == <<"Bearer ", t>>

\* the call in slot s was answered with a non-success response
AnsweredNotOk(c) == c.resp.kind = "http" /\ ~c.resp.ok

(***************************************************************************)
(* C1.  Every request carries 'Authorization: Bearer <token>' when a token *)
(* was stored at the call, and no Authorization header when none was.      *)
(***************************************************************************)
C1_AuthHeaderFollowsStorage ==
  \A s \in Slots : \A i \in 1..Len(calls[s].sent) :
    LET c == calls[s]
        r == c.sent[i]
    IN IF c.tokenAtCall # Null
       THEN HasAuth(r) /\ r.headers["Authorization"] = Bearer(c.tokenAtCall)
       ELSE ~HasAuth(r)

(***************************************************************************)
(* C2.  As claimed: a non-success response makes the method's promise      *)
(* reject with a non-empty message, for every method that sends a request. *)
(***************************************************************************)
C2_NonSuccessAlwaysRejects ==
  \A s \in Slots :
    LET c == calls[s]
    IN (c.pc = "done" /\ c.method \in FetchMethods /\ AnsweredNotOk(c))
       => (c.out.st = "rejected" /\ c.out.err # "")

(***************************************************************************)
(* C2, amended.  A non-success response makes the promise of every method  *)
(* except getCurrentUser reject with a non-empty message; getCurrentUser   *)
(* resolves with null instead.                                             *)
(***************************************************************************)
C2_NonSuccessRejectsExceptGetCurrentUser ==
  \A s \in Slots :
    LET c == calls[s]
    IN (c.pc = "done" /\ c.method \in FetchMethods /\ AnsweredNotOk(c))
       => IF c.method = "getCurrentUser"
          THEN c.out = Resolved(NullVal)
          ELSE c.out.st = "rejected" /\ c.out.err # ""

C2_Witness ==
  \E s \in Slots :
    /\ calls[s].pc = "done"
    /\ calls[s].method = "updateJob"
    /\ calls[s].resp = Response(FALSE, JsonBody([message |-> ""]))
    /\ calls[s].out.st = "rejected"

(***************************************************************************)
(* C3.  login and registerUser write the token of the response to storage  *)
(* in the step that resolves their promise, so that a request made next    *)
(* carries it; the write happens only on a success response, and no other  *)
(* step of these methods touches the storage.                              *)
(***************************************************************************)
C3_TokenStoredBeforeResolve ==
  [][\A s \in Slots :
       LET c == calls[s]
           d == calls'[s]
       IN d.method \in {"login", "registerUser"} =>
            /\ (c.pc # "done" /\ d.pc = "done" /\ d.out.st = "resolved") =>
                 /\ c.pc = "returning" /\ c.req.st = "resolved"
                 /\ c.resp.kind = "http" /\ c.resp.ok
                 /\ storage' = Str(Get(c.resp.body.obj, "token"))
                 /\ getUsers(NoArgs, storage').headers["Authorization"]
                      = Bearer(Str(Get(c.resp.body.obj, "token")))
            /\ (d # c /\ c.pc # "done" /\ ~(d.pc = "done" /\ d.out.st = "resolved")) =>
                 storage' = storage]_vars

C3_Witness ==
  \E s \in Slots :
    /\ calls[s].method = "login"
    /\ calls[s].pc = "done"
    /\ calls[s].out.st = "resolved"
    /\ calls[s].tokenAtCall = "t1"
    /\ storage = "t2"

(***************************************************************************)
(* C4.  logout leaves no token stored, from a state with or without one,   *)
(* and its promise resolves.                                               *)
(***************************************************************************)
C4_LogoutClearsToken ==
  [][\A s \in Slots :
       (calls[s].pc = "idle" /\ calls'[s].method = "logout") =>
         /\ storage' = Null
         /\ calls'[s].pc = "done"
         /\ calls'[s].out = Resolved(UndefinedVal)]_vars

C4_Witness ==
  \E s \in Slots :
    /\ calls[s].method = "logout"
    /\ calls[s].pc = "done"
    /\ calls[s].tokenAtCall \in Tokens
    /\ storage = Null

(***************************************************************************)
(* The documented request of each method: verb, path and body.             *)
(***************************************************************************)
DocumentedVerb(m) ==
  CASE m \in {"login", "registerUser", "createUser", "createJob", "claimJob",
              "updateJobStatus", "submitPDF"} -> "POST"
    [] m \in {"updateUser", "updateJob"} -> "PUT"
    [] m \in {"deleteUser", "deleteJob"} -> "DELETE"
    [] OTHER -> "GET"

DocumentedPath(m, a) ==
  CASE m = "login" -> {<<"/users/login">>}
    [] m \in {"registerUser", "createUser"} -> {<<"/users/register">>}
    [] m = "getCurrentUser" -> {<<"/users/me">>}
    [] m = "getUsers" -> {<<"/users">>}
    [] m \in {"updateUser", "deleteUser"} -> {<<"/users/", a.id>>}
    [] m = "createJob" -> {<<"/jobs">>}
    [] m \in {"getJob", "updateJob", "deleteJob"} -> {<<"/jobs/", a.id>>}
    [] m = "claimJob" -> {<<"/jobs/", a.id, "/claim">>}
    [] m = "updateJobStatus" -> {<<"/jobs/", a.id, "/status">>}
    [] m = "submitPDF" -> {<<"/jobs/", a.id, "/submit">>}
    [] m = "downloadPDF" -> {<<"/jobs/", a.id, "/download">>}

DocumentedBody(m, a) ==
  CASE m = "login" -> [kind |-> "json", obj |-> [email |-> a.email, password |-> a.password]]
    [] m \in {"registerUser", "createUser", "updateUser"} ->
         [kind |-> "json", obj |-> a.userData]
    [] m \in {"createJob", "updateJob"} -> [kind |-> "json", obj |-> a.jobData]
    [] m = "updateJobStatus" -> [kind |-> "json", obj |-> [status |-> a.status]]
    [] m = "submitPDF" -> [kind |-> "form", field |-> "submission", file |-> a.file]
    [] OTHER -> [kind |-> "none"]

\* the call has issued exactly one fetch, the documented one
OneDocumentedFetch(c) ==
  /\ Len(c.sent) = 1
  /\ c.sent[1].verb = DocumentedVerb(c.method)
  /\ c.sent[1].url[1] = baseURL
  /\ IF c.method = "getJobs"
     THEN c.sent[1].url[2] \in {"/jobs", "/jobs?"}
     ELSE Tail(c.sent[1].url) \in DocumentedPath(c.method, c.args)
  /\ c.sent[1].body = DocumentedBody(c.method, c.args)

(***************************************************************************)
(* C5.  As claimed: every public method issues exactly one fetch on each   *)
(* call, the documented one.                                               *)
(***************************************************************************)
C5_EveryMethodOneFetch ==
  \A s \in Slots : calls[s].pc # "idle" => OneDocumentedFetch(calls[s])

(***************************************************************************)
(* C5, amended.  Every public method except logout issues exactly one      *)
(* fetch on each call, with the documented verb, path and body, whatever   *)
(* the answer; logout issues none.                                         *)
(***************************************************************************)
C5_OneFetchExceptLogout ==
  \A s \in Slots :
    calls[s].pc # "idle" =>
      IF calls[s].method = "logout"
      THEN calls[s].sent = <<>>
      ELSE OneDocumentedFetch(calls[s])

C5_Witness ==
  \E s \in Slots :
    /\ calls[s].method = "claimJob"
    /\ calls[s].pc = "done"
    /\ AnsweredNotOk(calls[s])
    /\ Len(calls[s].sent) = 1
    /\ calls[s].sent[1].verb = "POST"
    /\ calls[s].sent[1].body = NoBody

(***************************************************************************)
(* C6.  As claimed: on a success response every method routed through      *)
(* request() resolves with exactly what request() resolved with.           *)
(***************************************************************************)
C6_ReturnsWrapperResult ==
  \A s \in Slots :
    LET c == calls[s]
    IN (c.pc = "done" /\ c.method \in RequestMethods /\ c.req.st = "resolved")
       => c.out = c.req

(***************************************************************************)
(* C6, amended.  On a success response getCurrentUser, getJobs, getJob,    *)
(* createJob, updateJob, getUsers, createUser and updateUser resolve with  *)
(* exactly the decoded body; login and registerUser resolve with its id,   *)
(* name, email and role only (the token and any other field are left       *)
(* out); deleteJob, claimJob, updateJobStatus and deleteUser resolve with  *)
(* undefined.                                                              *)
(***************************************************************************)
C6_ResultPerMethod ==
  \A s \in Slots :
    LET c == calls[s]
    IN (c.pc = "done" /\ c.method \in RequestMethods /\ c.req.st = "resolved")
       => CASE c.method \in {"login", "registerUser"} ->
                 /\ c.out.st = "resolved"
                 /\ c.out.val.kind = "json"
                 /\ c.out.val.obj = [f \in {"id", "name", "email", "role"} |->
                                       Get(c.resp.body.obj, f)]
            [] c.method \in {"deleteJob", "claimJob", "updateJobStatus", "deleteUser"} ->
                 c.out = [st |-> "resolved", val |-> [kind |-> "undefined"]]
            [] OTHER ->
                 /\ c.out = c.req
                 /\ c.out = [st |-> "resolved",
                             val |-> [kind |-> "json", obj |-> c.resp.body.obj]]

C6_Witness ==
  \E s \in Slots :
    /\ calls[s].method = "login"
    /\ calls[s].pc = "done"
    /\ calls[s].req = Resolved(JsonVal(UserObj("t1")))
    /\ calls[s].out.st = "resolved"
    /\ "token" \notin DOMAIN calls[s].out.val.obj

(***************************************************************************)
(* C7.  The Authorization header of a request is fixed by the storage at   *)
(* the call: a stored token is sent as 'Bearer <token>', and when none is  *)
(* stored no token is sent.  No later step (a login or logout completing,  *)
(* the answer arriving) changes the request that was sent or issues a      *)
(* second one, and a step of one call leaves every other call as it was.   *)
(***************************************************************************)
C7_TokenReadAtCall ==
  [][\A s \in Slots :
       LET c == calls[s]
           d == calls'[s]
       IN /\ (d.pc # "idle" /\ d.method # "logout") =>
               /\ Len(d.sent) = 1
               /\ d.tokenAtCall # Null =>
                    /\ HasAuth(d.sent[1])
                    /\ d.sent[1].headers["Authorization"] = Bearer(d.tokenAtCall)
               /\ d.tokenAtCall = Null =>
                    \A t \in Tokens :
                      ~(HasAuth(d.sent[1])
                        /\ d.sent[1].headers["Authorization"] = Bearer(t))
          /\ (c.pc \in {"fetching", "reading", "returning"} /\ d.pc # "idle") =>
               (d.sent = c.sent /\ d.tokenAtCall = c.tokenAtCall)
          /\ c.pc = "idle" /\ d.pc # "idle" => d.tokenAtCall = storage
          /\ d # c => \A u \in Slots \ {s} : calls'[u] = calls[u]]_vars

C7_Witness ==
  \E s, u \in Slots :
    /\ calls[s].method = "getJob"
    /\ calls[s].pc = "reading"
    /\ calls[s].tokenAtCall = "t1"
    /\ calls[s].sent[1].headers["Authorization"] = Bearer("t1")
    /\ calls[u].method = "login"
    /\ calls[u].pc = "done"
    /\ calls[u].out.st = "resolved"
    /\ storage = "t2"

(***************************************************************************)
(* C8.  The stored token changes only when a login or registerUser that    *)
(* received a success response resolves, or when logout is called.         *)
(***************************************************************************)
C8_TokenChangesOnlyByLoginRegisterLogout ==
  [][storage' # storage =>
       \E s \in Slots :
         \/ /\ calls[s].pc = "idle"
            /\ calls'[s].method = "logout"
            /\ storage' = Null
         \/ /\ calls[s].method \in {"login", "registerUser"}
            /\ calls[s].pc = "returning"
            /\ calls[s].req.st = "resolved"
            /\ calls[s].resp.kind = "http" /\ calls[s].resp.ok
            /\ calls'[s].pc = "done"
            /\ calls'[s].out.st = "resolved"]_vars

C8_Witness ==
  \E s \in Slots :
    /\ calls[s].method = "createUser"
    /\ calls[s].pc = "done"
    /\ calls[s].out = Resolved(JsonVal(UserObj("t2")))
    /\ calls[s].tokenAtCall = "t1"
    /\ storage = "t1"

(***************************************************************************)
(* C9.  On a non-success response request() and submitPDF fail once, with  *)
(* the server's message when the body is JSON with a non-empty message,    *)
(* 'API request failed' when the body is JSON without one, 'Unknown error' *)
(* when the body is not JSON; downloadPDF fails with 'Failed to download   *)
(* PDF' without reading the body; no second fetch is issued.               *)
(***************************************************************************)
ExpectedMessage(body) ==
  IF ~body.json THEN "Unknown error"
  ELSE IF "message" \in DOMAIN body.obj /\ body.obj["message"] # ""
       THEN body.obj["message"]
       ELSE "API request failed"

C9_FailureMessage ==
  \A s \in Slots :
    LET c == calls[s]
    IN /\ (c.method = "downloadPDF" /\ c.pc = "reading") => c.resp.ok
       /\ (c.pc \in {"returning", "done"} /\ c.method \in FetchMethods
           /\ AnsweredNotOk(c)) =>
            /\ Len(c.sent) = 1
            /\ CASE c.method \in RequestMethods ->
                      c.req = [st |-> "rejected", err |-> ExpectedMessage(c.resp.body)]
                 [] c.method = "submitPDF" ->
                      c.out = [st |-> "rejected", err |-> ExpectedMessage(c.resp.body)]
                 [] OTHER ->
                      c.out = [st |-> "rejected", err |-> "Failed to download PDF"]

C9_Witness ==
  \E s \in Slots :
    /\ calls[s].method = "getJob"
    /\ calls[s].pc = "done"
    /\ calls[s].resp = Response(FALSE, TextBody("not json"))
    /\ calls[s].req = Rejected("Unknown error")

(***************************************************************************)
(* Reading a query string back: split at '&', split each part at the first *)
(* '=', and decode '+' and the %XX escapes.                                *)
(***************************************************************************)
RECURSIVE SplitAt(_, _)
SplitAt(str, sep) ==
  IF \A i \in 1..Len(str) : str[i] # sep THEN <<str>>
  ELSE LET i == CHOOSE k \in 1..Len(str) :
                  str[k] = sep /\ \A j \in 1..(k - 1) : str[j] # sep
       IN <<SubSeq(str, 1, i - 1)>> \o SplitAt(SubSeq(str, i + 1, Len(str)), sep)

Unescape(h1, h2) ==
  IF \E c \in DOMAIN PercentCode : PercentCode[c] = <<h1, h2>>
  THEN CHOOSE c \in DOMAIN PercentCode : PercentCode[c] = <<h1, h2>>
  ELSE "?unknown"

RECURSIVE Decode(_)
Decode(str) ==
  IF str = <<>> THEN <<>>
  ELSE IF Head(str) = "+" THEN <<" ">> \o Decode(Tail(str))
  ELSE IF Head(str) = "%" /\ Len(str) >= 3
       THEN <<Unescape(str[2], str[3])>> \o Decode(SubSeq(str, 4, Len(str)))
  ELSE <<Head(str)>> \o Decode(Tail(str))

ParsePair(part) ==
  LET kv == SplitAt(part, "=")
  IN <<Decode(kv[1]), Decode(SubSeq(part, Len(kv[1]) + 2, Len(part)))>>

ParseQuery(str) ==
  LET parts == SplitAt(str, "&")
  IN [i \in 1..Len(parts) |-> ParsePair(parts[i])]

\* the filters that hold a non-empty string, in the order status, category,
\* priority, search
RECURSIVE ExpectedPairs(_, _)
ExpectedPairs(filters, keys) ==
  IF keys = <<>> THEN <<>>
  ELSE (IF keys[1][1] \in DOMAIN filters /\ Len(filters[keys[1][1]]) > 0
        THEN <<<<keys[1][2], filters[keys[1][1]]>>>> ELSE <<>>)
       \o ExpectedPairs(filters, Tail(keys))

FilterOrder ==
  <<<<"status", Chars_status>>, <<"category", Chars_category>>,
    <<"priority", Chars_priority>>, <<"search", Chars_search>>>>

(***************************************************************************)
(* C10.  The path of getJobs is '/jobs' when no filter holds a non-empty   *)
(* string; otherwise it is '/jobs?' followed by a query string that reads  *)
(* back as exactly the filters holding a non-empty string, each once, in   *)
(* the order status, category, priority, search.  A status of 'all' is     *)
(* sent as 'status=all'.                                                   *)
(***************************************************************************)
C10_GetJobsPath ==
  \A s \in Slots :
    LET c == calls[s]
    IN (c.method = "getJobs" /\ c.pc # "idle") =>
         LET url == c.sent[1].url
             want == ExpectedPairs(c.args.filters, FilterOrder)
         IN /\ url[1] = baseURL
            /\ IF want = <<>>
               THEN url = <<baseURL, "/jobs">>
               ELSE /\ url[2] = "/jobs?"
                    /\ ParseQuery(SubSeq(url, 3, Len(url))) = want
            /\ ("status" \in DOMAIN c.args.filters
                /\ c.args.filters["status"] = <<"a", "l", "l">>) =>
                 SubSeq(url, 3, 12) = <<"s", "t", "a", "t", "u", "s", "=", "a", "l", "l">>

C10_Witness ==
  \E s \in Slots :
    /\ calls[s].method = "getJobs"
    /\ calls[s].pc = "fetching"
    /\ calls[s].args.filters =
         [status |-> <<"a", "l", "l">>, category |-> <<>>,
          priority |-> <<"C", "#", "/", "~">>,
          search |-> <<"a", " ", "&", "=">>]
    /\ Tail(calls[s].sent[1].url) =
         <<"/jobs?", "s", "t", "a", "t", "u", "s", "=", "a", "l", "l", "&",
           "p", "r", "i", "o", "r", "i", "t", "y", "=",
           "C", "%", "2", "3", "%", "2", "F", "%", "7", "E", "&",
           "s", "e", "a", "r", "c", "h", "=", "a", "+", "%", "2", "6", "%", "3", "D">>

====
